---- MODULE Spec2Model ----
(***************************************************************************)
(* Model of hq (src/main.rs): a document tree is matched by a CSS          *)
(* selector, every candidate goes through the removal filter, the link     *)
(* rewriting map and one of four renderings.                               *)
(*                                                                         *)
(* Strings are sequences of one-character strings.  A document is a tree   *)
(* of nodes 1..n numbered in document order, node 1 being the Document     *)
(* node; the only mutation of the tree's shape is detach(), so the tree is *)
(* the parent link of every node (0 = no parent) and the children of a     *)
(* node are the nodes that name it as parent, in increasing order.         *)
(* A CSS selector is modelled by the list of tag names it is made of.      *)
(***************************************************************************)
EXTENDS Integers, Sequences, FiniteSets, TLC

VARIABLES document, config, parent, attrs, base, pc, trav, cur, output, hist

vars == <<document, config, parent, attrs, base, pc, trav, cur, output, hist>>

\* ------------------------------------------------------------------ bounds
MaxRemove == 2

MaxNames == 2

\* ----------------------------------------------------------------- strings
\* Option<T>: the empty set is None, {x} is Some(x)
None == {}

Some(x) == {x}

unwrap(o) == CHOOSE x \in o : TRUE

IsWhitespace(c) == c \in {" ", "\n", "\t"}

RECURSIVE TrimStart(_)
TrimStart(s) ==
    IF s = <<>> THEN s
    ELSE IF IsWhitespace(Head(s)) THEN TrimStart(Tail(s)) ELSE s

RECURSIVE TrimEnd(_)
TrimEnd(s) ==
    IF s = <<>> THEN s
    ELSE IF IsWhitespace(s[Len(s)]) THEN TrimEnd(SubSeq(s, 1, Len(s) - 1)) ELSE s

trim(s) == TrimEnd(TrimStart(s))

starts_with(s, p) == Len(s) >= Len(p) /\ SubSeq(s, 1, Len(p)) = p

RECURSIVE Concat(_)
Concat(ss) == IF ss = <<>> THEN <<>> ELSE Head(ss) \o Concat(Tail(ss))

\* --------------------------------------------------------------- documents
\* <div><span><b>t</b></span><p> \n<a href="/x" src="//c">Hi</a></p></div>
\* <b title="y" href="i/p"> a </b>
DocNested ==
    [ kind   |-> <<"Document", "Element", "Element", "Element", "Text",
                   "Element", "Text", "Element", "Text", "Element", "Text">>,
      tag    |-> <<"", "div", "span", "b", "", "p", "", "a", "", "b", "">>,
      text   |-> << <<>>, <<>>, <<>>, <<>>, <<"t">>, <<>>, <<" ", "\n">>, <<>>,
                    <<"H", "i">>, <<>>, <<" ", "a", " ">> >>,
      attrs  |-> << <<>>, <<>>, <<>>, <<>>, <<>>, <<>>, <<>>,
                    [href |-> <<"/", "x">>, src |-> <<"/", "/", "c">>],
                    <<>>, [title |-> <<"y">>, href |-> <<"i", "/", "p">>], <<>> >>,
      parent |-> <<0, 1, 2, 3, 4, 2, 6, 6, 8, 1, 10>> ]

\* <base href="e/p"><base href="h://d/q">
\* <div><br>x</br><img src="/i"><p href="s://o/" src="/j">Hi</p><span></span></div>
DocBase ==
    [ kind   |-> <<"Document", "Element", "Element", "Element", "Element",
                   "Text", "Element", "Element", "Text", "Element">>,
      tag    |-> <<"", "base", "base", "div", "br", "", "img", "p", "", "span">>,
      text   |-> << <<>>, <<>>, <<>>, <<>>, <<>>, <<"x">>, <<>>, <<>>,
                    <<"H", "i">>, <<>> >>,
      attrs  |-> << <<>>, [href |-> <<"e", "/", "p">>],
                    [href |-> <<"h", ":", "/", "/", "d", "/", "q">>], <<>>, <<>>,
                    <<>>, [src |-> <<"/", "i">>],
                    [href |-> <<"s", ":", "/", "/", "o", "/">>, src |-> <<"/", "j">>],
                    <<>>, <<>> >>,
      parent |-> <<0, 1, 1, 1, 4, 5, 4, 4, 8, 4>> ]

\* <p> </p><p src="/a?x">Hi<span>t</span> </p><div><p href="/">  </p></div>
DocFlat ==
    [ kind   |-> <<"Document", "Element", "Text", "Element", "Text", "Element",
                   "Text", "Text", "Element", "Element", "Text">>,
      tag    |-> <<"", "p", "", "p", "", "span", "", "", "div", "p", "">>,
      text   |-> << <<>>, <<>>, <<" ">>, <<>>, <<"H", "i">>, <<>>, <<"t">>, <<" ">>,
                    <<>>, <<>>, <<" ", " ">> >>,
      attrs  |-> << <<>>, <<>>, <<>>, [src |-> <<"/", "a", "?", "x">>], <<>>, <<>>,
                    <<>>, <<>>, <<>>, [href |-> <<"/">>], <<>> >>,
      parent |-> <<0, 1, 2, 1, 4, 4, 6, 4, 1, 9, 10>> ]

DocNames == {"nested", "base", "flat"}

\* the tree the parser built from the input
doc ==
    CASE document = "nested" -> DocNested
      [] document = "base"   -> DocBase
      [] OTHER               -> DocFlat

Nodes == 1 .. Len(doc.kind)

IsElement(n) == doc.kind[n] = "Element"

IsText(n) == doc.kind[n] = "Text"

\* ------------------------------------------------------------ tree access
Children(par, n) == {m \in DOMAIN par : par[m] = n}

SetMin(S) == CHOOSE x \in S : \A y \in S : x <= y

first_child(par, n) ==
    IF Children(par, n) = {} THEN 0 ELSE SetMin(Children(par, n))

next_sibling(par, n) ==
    LET later == {m \in DOMAIN par : par[n] # 0 /\ par[m] = par[n] /\ m > n}
    IN  IF later = {} THEN 0 ELSE SetMin(later)

RECURSIVE IsAncestorOrSelf(_, _, _)
IsAncestorOrSelf(par, a, n) ==
    IF a = n THEN TRUE
    ELSE IF par[n] = 0 THEN FALSE
    ELSE IsAncestorOrSelf(par, a, par[n])

\* the node and its descendants in the tree `par`
inclusive_descendants(par, n) == {m \in DOMAIN par : IsAncestorOrSelf(par, n, m)}

RECURSIVE SortedSeq(_)
SortedSeq(S) == IF S = {} THEN <<>> ELSE <<SetMin(S)>> \o SortedSeq(S \ {SetMin(S)})

detach(par, n) == [par EXCEPT ![n] = 0]

\* --------------------------------------------------------------- selectors
\* A selector string is a sequence of tokens: a tag name, "," or "!" (a
\* character no selector can contain).  Parsing splits at the commas; every
\* piece has to be one tag name.  The parsed selector is the set of its tags.
Err == [ok |-> FALSE, tags |-> {}]

Ok(tags) == [ok |-> TRUE, tags |-> tags]

TagNames == {"div", "p", "b", "span", "a", "base", "br", "img"}

RECURSIVE join(_, _)
join(strs, sep) ==
    IF strs = <<>> THEN <<>>
    ELSE IF Len(strs) = 1 THEN strs[1]
    ELSE strs[1] \o sep \o join(Tail(strs), sep)

RECURSIVE SplitComma(_, _)
SplitComma(s, piece) ==
    IF s = <<>> THEN <<piece>>
    ELSE IF Head(s) = "," THEN <<piece>> \o SplitComma(Tail(s), <<>>)
    ELSE SplitComma(Tail(s), Append(piece, Head(s)))

ParseSelector(s) ==
    LET pieces == SplitComma(s, <<>>)
    IN  IF \A i \in DOMAIN pieces : Len(pieces[i]) = 1 /\ pieces[i][1] \in TagNames
        THEN Ok({pieces[i][1] : i \in DOMAIN pieces})
        ELSE Err

matches(sel, n) == IsElement(n) /\ doc.tag[n] \in sel.tags

\* -------------------------------------------------------------------- URLs
\* Url::parse on the absolute URLs "scheme://authority[/path]"; everything
\* else (a relative reference, an empty string) fails to parse.
RECURSIVE IndexOf(_, _, _)
IndexOf(s, c, from) ==
    IF from > Len(s) THEN 0
    ELSE IF s[from] = c THEN from ELSE IndexOf(s, c, from + 1)

ParseUrl(s) ==
    LET colon == IndexOf(s, ":", 1)
        rest  == SubSeq(s, colon + 3, Len(s))
        slash == IndexOf(rest, "/", 1)
        auth  == IF slash = 0 THEN rest ELSE SubSeq(rest, 1, slash - 1)
    IN  IF /\ colon >= 2
           /\ IndexOf(s, "/", 1) > colon
           /\ Len(s) >= colon + 2
           /\ s[colon + 1] = "/" /\ s[colon + 2] = "/"
           /\ auth # <<>>
        THEN Some([scheme |-> SubSeq(s, 1, colon - 1), authority |-> auth,
                   path |-> IF slash = 0 THEN <<"/">> ELSE SubSeq(rest, slash, Len(rest))])
        ELSE None

\* ------------------------------------------------------------------ config
Selectors == { <<"div">>, <<"p">>, <<"div", ",", "b">>, <<"p", ",", "a">>, <<"!">> }

RemoveItems == { <<"span">>, <<"p">>, <<"!">> }

AttrNames == {"href", "src", "title"}

BaseStrings == { <<"h", ":", "/", "/", "e", "/", "p">>, <<"e", "/", "p">> }

SeqsUpTo(S, n) == UNION {[1 .. k -> S] : k \in 0 .. n}

\* the command lines of the runs: ignore_whitespace is read by the text
\* branch only, and the branches look at no more than whether the attribute
\* list is empty
Configs ==
    { c \in [ selector          : Selectors,
              base              : {None} \cup {Some(b) : b \in BaseStrings},
              detect_base       : BOOLEAN,
              text_only         : BOOLEAN,
              ignore_whitespace : BOOLEAN,
              pretty_print      : BOOLEAN,
              remove_nodes      : SeqsUpTo(RemoveItems, MaxRemove),
              attributes        : SeqsUpTo(AttrNames, 1) ] :
        c.ignore_whitespace => c.text_only /\ c.attributes = <<>> }

\* the arguments of the two extraction functions
FnConfigs ==
    [ selector          : {<<"div">>},
      base              : {None},
      detect_base       : {FALSE},
      text_only         : {FALSE},
      ignore_whitespace : BOOLEAN,
      pretty_print      : {FALSE},
      remove_nodes      : {<<>>},
      attributes        : SeqsUpTo(AttrNames, MaxNames) ]

\* --------------------------------------------------------- base resolution
\* link::detect_base: the first element in document order whose tag is
\* `base` and whose href parses as an absolute URL.
detect_base(par, att) ==
    LET found == {n \in inclusive_descendants(par, 1) :
                     /\ IsElement(n) /\ doc.tag[n] = "base"
                     /\ "href" \in DOMAIN att[n]
                     /\ ParseUrl(att[n].href) # None}
    IN  IF found = {} THEN None ELSE ParseUrl(att[SetMin(found)].href)

or(a, b) == IF a # None THEN a ELSE b

\* the explicit base taking precedence over the detected one
ResolvedBaseExplicitFirst(cfg, par, att) ==
    IF cfg.base # None /\ cfg.detect_base
        THEN or(ParseUrl(unwrap(cfg.base)), detect_base(par, att))
    ELSE IF cfg.base # None /\ ~cfg.detect_base
        THEN ParseUrl(unwrap(cfg.base))
    ELSE IF cfg.base = None /\ cfg.detect_base
        THEN detect_base(par, att)
    ELSE None

ResolvedBase(cfg, par, att) ==
    IF cfg.base # None /\ cfg.detect_base
        THEN or(detect_base(par, att), ParseUrl(unwrap(cfg.base)))
    ELSE IF cfg.base # None /\ ~cfg.detect_base
        THEN ParseUrl(unwrap(cfg.base))
    ELSE IF cfg.base = None /\ cfg.detect_base
        THEN detect_base(par, att)
    ELSE None

remove_node_selector == join(config.remove_nodes, <<",">>)

\* ----------------------------------------------------------------- select
\* kuchiki's Traverse keeps the edge it will yield next; yielding an edge
\* computes the edge after it from the tree as it is at that moment.
NoEdge == [edge |-> "none", node |-> 0]

Start(n) == [edge |-> "Start", node |-> n]

End(n) == [edge |-> "End", node |-> n]

Following(par, st) ==
    IF st = End(1) THEN NoEdge
    ELSE IF st.edge = "Start"
        THEN IF first_child(par, st.node) # 0
             THEN Start(first_child(par, st.node)) ELSE End(st.node)
    ELSE IF next_sibling(par, st.node) # 0
        THEN Start(next_sibling(par, st.node))
    ELSE IF par[st.node] # 0 THEN End(par[st.node]) ELSE NoEdge

\* Select<Elements<Descendants>>::next: the next start edge of an element
\* that matches, and the traversal state left behind
RECURSIVE SelectNext(_, _, _)
SelectNext(par, st, sel) ==
    IF st = NoEdge THEN [found |-> 0, st |-> NoEdge]
    ELSE IF st.edge = "Start" /\ matches(sel, st.node)
        THEN [found |-> st.node, st |-> Following(par, st)]
    ELSE SelectNext(par, Following(par, st), sel)

\* the pieces of the selector list that do not parse skipped, the others used
select_first_lenient(par, n, selector) ==
    LET pieces == SplitComma(selector, <<>>)
        tags   == {pieces[i][1] : i \in {j \in DOMAIN pieces :
                        Len(pieces[j]) = 1 /\ pieces[j][1] \in TagNames}}
        found  == {m \in inclusive_descendants(par, n) : IsElement(m) /\ doc.tag[m] \in tags}
    IN  IF found = {} THEN 0 ELSE SetMin(found)

\* NodeRef::select_first: Err(()), written 0, for a selector that does not
\* parse or matches nothing, else the first match among the node and its
\* descendants
select_first(par, n, selector) ==
    LET sel   == ParseSelector(selector)
        found == IF ~sel.ok THEN {}
                 ELSE {m \in inclusive_descendants(par, n) : matches(sel, m)}
    IN  IF found = {} THEN 0 ELSE SetMin(found)

\* ---------------------------------------------------------- link rewriting
LinkAttrs == {"href", "src"}

rewrite_value(b, v) ==
    IF starts_with(v, <<"/">>) /\ ~starts_with(v, <<"/", "/">>)
    THEN b.scheme \o <<":", "/", "/">> \o b.authority \o v
    ELSE v

\* link::rewrite_relative_url: the attributes of the node itself
rewrite_relative_url(att, n, b) ==
    IF ~IsElement(n) THEN att
    ELSE [att EXCEPT ![n] =
            [a \in DOMAIN att[n] |->
                IF a \in LinkAttrs THEN rewrite_value(b, att[n][a]) ELSE att[n][a]]]

\* ------------------------------------------------------------- renderings
NL == <<"\n">>

RECURSIVE AttrLines(_, _)
AttrLines(elem_atts, attributes) ==
    IF attributes = <<>> THEN <<>>
    ELSE (IF Head(attributes) \in DOMAIN elem_atts
          THEN elem_atts[Head(attributes)] \o NL ELSE <<>>)
         \o AttrLines(elem_atts, Tail(attributes))

\* an empty line written for a requested attribute the element lacks
RECURSIVE AttrLinesPlaceholder(_, _)
AttrLinesPlaceholder(elem_atts, attributes) ==
    IF attributes = <<>> THEN <<>>
    ELSE (IF Head(attributes) \in DOMAIN elem_atts
          THEN elem_atts[Head(attributes)] \o NL ELSE NL)
         \o AttrLinesPlaceholder(elem_atts, Tail(attributes))

select_attributes_placeholder(att, n, attributes) ==
    IF IsElement(n) THEN AttrLinesPlaceholder(att[n], attributes) ELSE <<>>

select_attributes(att, n, attributes) ==
    IF IsElement(n) THEN AttrLines(att[n], attributes) ELSE <<>>

text_nodes(par, n) == SortedSeq({m \in inclusive_descendants(par, n) : IsText(m)})

RECURSIVE TextLoop(_, _, _)
TextLoop(nodes, ignore_whitespace, result) ==
    IF nodes = <<>> THEN result
    ELSE IF ignore_whitespace /\ trim(doc.text[Head(nodes)]) = <<>>
        THEN TextLoop(Tail(nodes), ignore_whitespace, result)
    ELSE TextLoop(Tail(nodes), ignore_whitespace,
                  result \o doc.text[Head(nodes)]
                         \o (IF ignore_whitespace THEN NL ELSE <<>>))

\* the trimmed content pushed instead of the content as it is
RECURSIVE TextLoopTrimmed(_, _, _)
TextLoopTrimmed(nodes, ignore_whitespace, result) ==
    IF nodes = <<>> THEN result
    ELSE IF ignore_whitespace /\ trim(doc.text[Head(nodes)]) = <<>>
        THEN TextLoopTrimmed(Tail(nodes), ignore_whitespace, result)
    ELSE TextLoopTrimmed(Tail(nodes), ignore_whitespace,
                         result \o trim(doc.text[Head(nodes)])
                                \o (IF ignore_whitespace THEN NL ELSE <<>>))

serialize_text_trimmed(par, n, ignore_whitespace) ==
    TextLoopTrimmed(text_nodes(par, n), ignore_whitespace, <<>>)

serialize_text(par, n, ignore_whitespace) ==
    TextLoop(text_nodes(par, n), ignore_whitespace, <<>>)

\* a void-element set that lacks br
VoidElementsNoBr == {"area", "base", "col", "embed", "hr", "img", "input",
                     "link", "meta", "param", "source", "track", "wbr"}

VoidElements == {"area", "base", "br", "col", "embed", "hr", "img", "input",
                 "link", "meta", "param", "source", "track", "wbr"}

Line(kind, n, depth, content) ==
    [kind |-> kind, node |-> n, indent |-> depth, content |-> content]

\* pretty_print::pretty_print: the lines of the rendering, each with the
\* depth it is indented by
RECURSIVE render(_, _, _, _)
RECURSIVE render_children(_, _, _, _)
render(par, att, n, depth) ==
    IF IsText(n)
    THEN IF trim(doc.text[n]) = <<>> THEN <<>>
         ELSE <<Line("text", n, depth, trim(doc.text[n]))>>
    ELSE IF IsElement(n) /\ doc.tag[n] \in VoidElements
    THEN <<Line("open", n, depth, att[n])>>
    ELSE IF IsElement(n)
    THEN <<Line("open", n, depth, att[n])>>
         \o render_children(par, att, SortedSeq(Children(par, n)), depth + 1)
         \o <<Line("close", n, depth, <<>>)>>
    ELSE render_children(par, att, SortedSeq(Children(par, n)), depth)

render_children(par, att, ch, depth) ==
    IF ch = <<>> THEN <<>>
    ELSE render(par, att, Head(ch), depth) \o render_children(par, att, Tail(ch), depth)

pretty_print(par, att, n) == render(par, att, n, 0)

\* NodeRef::to_string: the serialization of the subtree, a start tag with
\* the attributes as they are now, the children, and an end tag unless the
\* element is a void one
RECURSIVE to_string(_, _, _)
RECURSIVE to_string_children(_, _, _)
to_string(par, att, n) ==
    IF IsText(n) THEN <<[kind |-> "text", node |-> n, content |-> doc.text[n]]>>
    ELSE IF IsElement(n)
    THEN <<[kind |-> "open", node |-> n, content |-> att[n]]>>
         \o to_string_children(par, att, SortedSeq(Children(par, n)))
         \o (IF doc.tag[n] \in VoidElements THEN <<>>
             ELSE <<[kind |-> "close", node |-> n, content |-> <<>>]>>)
    ELSE to_string_children(par, att, SortedSeq(Children(par, n)))

to_string_children(par, att, ch) ==
    IF ch = <<>> THEN <<>>
    ELSE to_string(par, att, Head(ch)) \o to_string_children(par, att, Tail(ch))

\* ---------------------------------------------------------------- pipeline
Entry(n, mode, data, nodes) == [node |-> n, mode |-> mode, data |-> data, nodes |-> nodes]

Init ==
    /\ document \in DocNames
    /\ config \in Configs
    /\ parent = doc.parent
    /\ attrs = doc.attrs
    /\ base = None
    /\ pc = "start"
    /\ trav = NoEdge
    /\ cur = 0
    /\ output = <<>>
    /\ hist = <<>>

\* let base = match (&config.base, &config.detect_base) { ... }
ResolveBase ==
    /\ pc = "start"
    /\ base' = ResolvedBase(config, parent, attrs)
    /\ pc' = "select"
    /\ UNCHANGED <<document, config, parent, attrs, trav, cur, output, hist>>

\* document.select(&config.selector).expect(..) on a selector that fails to parse
SelectPanic ==
    /\ pc = "select"
    /\ ~ParseSelector(config.selector).ok
    /\ pc' = "panic"
    /\ UNCHANGED <<document, config, parent, attrs, base, trav, cur, output, hist>>

SelectOk ==
    /\ pc = "select"
    /\ ParseSelector(config.selector).ok
    /\ trav' = Start(1)
    /\ pc' = "iter"
    /\ UNCHANGED <<document, config, parent, attrs, base, cur, output, hist>>

\* the iterator chain pulls the next candidate out of the selector match
IterNext ==
    /\ pc = "iter"
    /\ LET r == SelectNext(parent, trav, ParseSelector(config.selector))
       IN  /\ r.found # 0
           /\ cur' = r.found
           /\ trav' = r.st
    /\ pc' = "filter"
    /\ UNCHANGED <<document, config, parent, attrs, base, output, hist>>

IterEnd ==
    /\ pc = "iter"
    /\ SelectNext(parent, trav, ParseSelector(config.selector)).found = 0
    /\ trav' = NoEdge
    /\ cur' = 0
    /\ pc' = "done"
    /\ UNCHANGED <<document, config, parent, attrs, base, output, hist>>

\* the match detached and the candidate kept all the same
FilterDetachKeep ==
    /\ pc = "filter"
    /\ select_first(parent, cur, remove_node_selector) # 0
    /\ parent' = detach(parent, select_first(parent, cur, remove_node_selector))
    /\ hist' = Append(hist, [node |-> cur, kept |-> TRUE,
                             detached |-> select_first(parent, cur, remove_node_selector)])
    /\ pc' = "map"
    /\ UNCHANGED <<document, config, attrs, base, trav, cur, output>>

\* .filter(..): select_first gave Ok(node): detach it, drop the candidate
FilterDetach ==
    /\ pc = "filter"
    /\ select_first(parent, cur, remove_node_selector) # 0
    /\ parent' = detach(parent, select_first(parent, cur, remove_node_selector))
    /\ hist' = Append(hist, [node |-> cur, kept |-> FALSE,
                             detached |-> select_first(parent, cur, remove_node_selector)])
    /\ pc' = "iter"
    /\ UNCHANGED <<document, config, attrs, base, trav, cur, output>>

\* .filter(..): select_first gave Err: keep the candidate
FilterKeep ==
    /\ pc = "filter"
    /\ select_first(parent, cur, remove_node_selector) = 0
    /\ hist' = Append(hist, [node |-> cur, kept |-> TRUE, detached |-> 0])
    /\ pc' = "map"
    /\ UNCHANGED <<document, config, parent, attrs, base, trav, cur, output>>

\* the explicit base used for the rewriting, whatever was resolved
MapRewriteExplicit ==
    /\ pc = "map"
    /\ attrs' = IF config.base # None /\ ParseUrl(unwrap(config.base)) # None
                THEN rewrite_relative_url(attrs, cur, unwrap(ParseUrl(unwrap(config.base))))
                ELSE attrs
    /\ pc' = "emit"
    /\ UNCHANGED <<document, config, parent, base, trav, cur, output, hist>>

\* .map(..): rewrite the links of the candidate when there is a base
MapRewrite ==
    /\ pc = "map"
    /\ attrs' = IF base # None
                THEN rewrite_relative_url(attrs, cur, unwrap(base))
                ELSE attrs
    /\ pc' = "emit"
    /\ UNCHANGED <<document, config, parent, base, trav, cur, output, hist>>

\* .for_each(..), the four branches
EmitAttributes ==
    /\ pc = "emit"
    /\ config.attributes # <<>>
    /\ output' = Append(output,
            Entry(cur, "attribute", select_attributes(attrs, cur, config.attributes), {cur}))
    /\ pc' = "iter"
    /\ UNCHANGED <<document, config, parent, attrs, base, trav, cur, hist>>

\* the text branch taken without looking at the attribute list
EmitTextUnguarded ==
    /\ pc = "emit"
    /\ config.text_only
    /\ output' = Append(output,
            Entry(cur, "text",
                  serialize_text(parent, cur, config.ignore_whitespace) \o NL,
                  {m \in inclusive_descendants(parent, cur) : IsText(m)}))
    /\ pc' = "iter"
    /\ UNCHANGED <<document, config, parent, attrs, base, trav, cur, hist>>

EmitText ==
    /\ pc = "emit"
    /\ config.attributes = <<>>
    /\ config.text_only
    /\ output' = Append(output,
            Entry(cur, "text",
                  serialize_text(parent, cur, config.ignore_whitespace) \o NL,
                  {m \in inclusive_descendants(parent, cur) : IsText(m)}))
    /\ pc' = "iter"
    /\ UNCHANGED <<document, config, parent, attrs, base, trav, cur, hist>>

EmitPretty ==
    /\ pc = "emit"
    /\ config.attributes = <<>>
    /\ ~config.text_only
    /\ config.pretty_print
    /\ LET lines == pretty_print(parent, attrs, cur)
       IN  output' = Append(output,
                Entry(cur, "pretty", lines, {lines[i].node : i \in DOMAIN lines}))
    /\ pc' = "iter"
    /\ UNCHANGED <<document, config, parent, attrs, base, trav, cur, hist>>

EmitRaw ==
    /\ pc = "emit"
    /\ config.attributes = <<>>
    /\ ~config.text_only
    /\ ~config.pretty_print
    /\ LET toks == to_string(parent, attrs, cur)
       IN  output' = Append(output,
                Entry(cur, "raw", toks, {toks[i].node : i \in DOMAIN toks}))
    /\ pc' = "iter"
    /\ UNCHANGED <<document, config, parent, attrs, base, trav, cur, hist>>

Next ==
    \/ ResolveBase
    \/ SelectPanic
    \/ SelectOk
    \/ IterNext
    \/ IterEnd
    \/ FilterDetach
    \/ FilterKeep
    \/ MapRewrite
    \/ EmitAttributes
    \/ EmitText
    \/ EmitPretty
    \/ EmitRaw

Spec == Init /\ [][Next]_vars

\* ------------------------------------------------------------- properties
Last(q) == q[Len(q)]

OutputNodes == [i \in DOMAIN output |-> output[i].node]

RemovalSelector == ParseSelector(remove_node_selector)

\* the elements of the document as it was read that match the primary
\* selector, in document order
PrimaryMatches ==
    SortedSeq({n \in Nodes : matches(ParseSelector(config.selector), n)})

\* C1: with a valid removal selector, no node that matches it and no
\* descendant of such a node contributes to anything written to the output.
C1_RemovedNeverOutput ==
    RemovalSelector.ok =>
        \A i \in DOMAIN output : \A m \in output[i].nodes :
            ~\E a \in Nodes :
                matches(RemovalSelector, a) /\ IsAncestorOrSelf(doc.parent, a, m)

Excluded(n) ==
    /\ RemovalSelector.ok
    /\ \E a \in Nodes : matches(RemovalSelector, a) /\ IsAncestorOrSelf(doc.parent, a, n)

\* C2: every candidate the selector match yields is rendered exactly once,
\* a candidate from which an excluded subtree was detached included, and the
\* renderings are written in the order the candidates were yielded.  (A
\* candidate that is itself excluded, by matching the removal selector or by
\* lying below a node that does, is left out of the statement.)
C2_EveryCandidateRendered ==
    pc = "done" =>
        LET yielded == SelectSeq(hist, LAMBDA h : ~Excluded(h.node))
        IN  OutputNodes = [i \in DOMAIN yielded |-> yielded[i].node]

ExpectedBase ==
    LET detected       == detect_base(doc.parent, doc.attrs)
        parsedExplicit == IF config.base = None THEN None
                          ELSE ParseUrl(unwrap(config.base))
    IN  IF config.detect_base /\ detected # None THEN detected ELSE parsedExplicit

\* C3: the base is the detected one if detection is on and finds one, else
\* the explicit one if it parses, else None; an explicit base that does not
\* parse does not abort the run; the base never changes once computed.
C3_BaseResolution ==
    /\ pc # "start" => base = ExpectedBase
    /\ pc = "panic" => ~ParseSelector(config.selector).ok

C3_Witness ==
    /\ pc = "done"
    /\ config.detect_base
    /\ config.base # None
    /\ ParseUrl(unwrap(config.base)) # None
    /\ base # None
    /\ base # ParseUrl(unwrap(config.base))
    /\ Len(output) > 0

ExpectedMode ==
    IF config.attributes # <<>> THEN "attribute"
    ELSE IF config.text_only THEN "text"
    ELSE IF config.pretty_print THEN "pretty"
    ELSE "raw"

KeptCandidates == SelectSeq(hist, LAMBDA h : h.kept)

\* C4: every emitted candidate is rendered by exactly one branch, chosen by
\* attributes > text > pretty > raw, also when the candidate has none of the
\* requested attributes.
C4_ModePrecedence ==
    /\ \A i \in DOMAIN output : output[i].mode = ExpectedMode
    /\ pc \in {"iter", "filter", "done"} =>
            OutputNodes = [i \in DOMAIN KeptCandidates |-> KeptCandidates[i].node]

C4_Witness ==
    /\ pc = "done"
    /\ config.text_only /\ config.pretty_print
    /\ \E i \in DOMAIN output :
          /\ output[i].mode = "attribute"
          /\ output[i].data = <<>>
          /\ DOMAIN attrs[output[i].node] # {}

\* C5: with a removal selector that does not parse nothing is ever detached,
\* every candidate is kept, and the run ends having emitted every match of
\* the primary selector.
C5_InvalidRemovalSelector ==
    ~RemovalSelector.ok =>
        /\ parent = doc.parent
        /\ \A i \in DOMAIN hist : hist[i].kept
        /\ pc = "panic" => ~ParseSelector(config.selector).ok
        /\ pc = "done" => OutputNodes = PrimaryMatches

C5_Witness ==
    /\ pc = "done"
    /\ Len(config.remove_nodes) = 2
    /\ config.remove_nodes[1] = <<"span">>
    /\ config.remove_nodes[2] = <<"!">>
    /\ Len(output) >= 2
    /\ \E i \in DOMAIN output : \E m \in output[i].nodes : doc.tag[m] = "span"

RemovalMatches ==
    IF RemovalSelector.ok
    THEN {m \in Nodes : /\ IsAncestorOrSelf(parent, cur, m)
                        /\ IsElement(m)
                        /\ doc.tag[m] \in RemovalSelector.tags}
    ELSE {}

C10_Step ==
    pc = "filter" =>
        IF RemovalMatches # {}
        THEN /\ \E d \in RemovalMatches :
                  /\ \A m \in RemovalMatches : d <= m
                  /\ parent'[d] = 0
                  /\ \A m \in Nodes \ {d} : parent'[m] = parent[m]
             /\ pc' = "iter"
        ELSE /\ parent' = parent
             /\ pc' = "map"

C10_Dropped ==
    \A i \in DOMAIN hist :
        ~hist[i].kept =>
            /\ \A j \in DOMAIN output : output[j].node # hist[i].node
            /\ attrs[hist[i].node] = doc.attrs[hist[i].node]
            /\ ~(pc \in {"map", "emit"} /\ cur = hist[i].node)

AllWhitespace(t) == \A i \in DOMAIN t : t[i] \in {" ", "\n", "\t"}

RootRelative(v) == Len(v) >= 1 /\ v[1] = "/" /\ ~(Len(v) >= 2 /\ v[2] = "/")

C6_Step ==
    pc = "map" =>
        /\ \A n \in Nodes \ {cur} : attrs'[n] = attrs[n]
        /\ DOMAIN attrs'[cur] = DOMAIN attrs[cur]
        /\ \A a \in DOMAIN attrs[cur] :
              IF base # None /\ a \in {"href", "src"} /\ RootRelative(attrs[cur][a])
              THEN attrs'[cur][a] =
                      unwrap(base).scheme \o <<":", "/", "/">>
                          \o unwrap(base).authority \o attrs[cur][a]
              ELSE attrs'[cur][a] = attrs[cur][a]
        /\ base # None => rewrite_relative_url(attrs', cur, unwrap(base)) = attrs'

Opens(L, n) == {i \in DOMAIN L : L[i].node = n /\ L[i].kind = "open"}

Closes(L, n) == {i \in DOMAIN L : L[i].node = n /\ L[i].kind = "close"}

Texts(L, n) == {i \in DOMAIN L : L[i].node = n /\ L[i].kind = "text"}

Rendered(L) == {L[i].node : i \in DOMAIN L}

PrettyOK(L, n) ==
    /\ \A i \in DOMAIN L : L[i].node = n => L[i].indent = 0
    /\ \A e \in Rendered(L) :
          IF IsText(e)
          THEN /\ ~AllWhitespace(doc.text[e])
               /\ Opens(L, e) = {} /\ Closes(L, e) = {}
               /\ Cardinality(Texts(L, e)) = 1
          ELSE IF doc.tag[e] \in {"area", "base", "br", "col", "embed", "hr", "img",
                                 "input", "link", "meta", "param", "source",
                                 "track", "wbr"}
          THEN /\ Cardinality(Opens(L, e)) = 1
               /\ Closes(L, e) = {} /\ Texts(L, e) = {}
               /\ \A m \in Nodes :
                     m # e /\ IsAncestorOrSelf(parent, e, m) => m \notin Rendered(L)
          ELSE /\ Cardinality(Opens(L, e)) = 1
               /\ Cardinality(Closes(L, e)) = 1
               /\ Texts(L, e) = {}
               /\ \A i \in Opens(L, e) : \A j \in Closes(L, e) :
                     /\ i < j
                     /\ L[i].indent = L[j].indent
                     /\ \A c \in Children(parent, e) :
                           /\ IsElement(c) => Opens(L, c) # {}
                           /\ IsText(c) /\ ~AllWhitespace(doc.text[c]) => Texts(L, c) # {}
                           /\ \A k \in DOMAIN L :
                                 L[k].node = c =>
                                    /\ i < k /\ k < j
                                    /\ L[k].indent = L[i].indent + 1
                                    /\ \A c2 \in Children(parent, e) : \A k2 \in DOMAIN L :
                                          L[k2].node = c2 /\ c < c2 => k < k2

C9_Step ==
    pc = "emit" /\ ExpectedMode = "pretty" =>
        /\ Len(output') = Len(output) + 1
        /\ Last(output').node = cur
        /\ PrettyOK(Last(output').data, cur)

\* C9: in a pretty-printed rendering a void element is one opening line, with
\* no closing line and no line for anything below it; any other element is an
\* opening and a closing line at one indent with its children between them,
\* in order, one level deeper; a text node of nothing but whitespace has no
\* line.
C9_PrettyPrint == [][C9_Step]_vars

C9_Witness ==
    /\ pc = "done"
    /\ \E i \in DOMAIN output :
          /\ output[i].mode = "pretty"
          /\ \E k \in DOMAIN output[i].data :
                /\ doc.tag[output[i].data[k].node] = "br"
                /\ Children(parent, output[i].data[k].node) # {}
          /\ \E k \in DOMAIN output[i].data :
                output[i].data[k].kind = "text" /\ output[i].data[k].indent = 2

\* ------------------------------------------- the extraction functions alone
\* serialize_text and select_attributes applied to any node of a document
InitFn ==
    /\ document \in DocNames
    /\ config \in FnConfigs
    /\ parent = doc.parent
    /\ attrs = doc.attrs
    /\ base = None
    /\ pc = "call"
    /\ trav = NoEdge
    /\ cur \in Nodes
    /\ output = <<>>
    /\ hist = <<>>

CallSelectAttributes ==
    /\ pc = "call"
    /\ output' = <<Entry(cur, "attribute", select_attributes(attrs, cur, config.attributes), {cur})>>
    /\ pc' = "returned"
    /\ UNCHANGED <<document, config, parent, attrs, base, trav, cur, hist>>

CallSerializeText ==
    /\ pc = "call"
    /\ output' = <<Entry(cur, "text", serialize_text(parent, cur, config.ignore_whitespace),
                         {m \in inclusive_descendants(parent, cur) : IsText(m)})>>
    /\ pc' = "returned"
    /\ UNCHANGED <<document, config, parent, attrs, base, trav, cur, hist>>

NextFn == CallSelectAttributes \/ CallSerializeText

SpecFn == InitFn /\ [][NextFn]_vars

TextNodesOf(n) ==
    SortedSeq({m \in Nodes : IsText(m) /\ IsAncestorOrSelf(parent, n, m)})

ExpectedText(n, ignore) ==
    LET kept == SelectSeq(TextNodesOf(n),
                          LAMBDA m : ~(ignore /\ AllWhitespace(doc.text[m])))
    IN  Concat([i \in DOMAIN kept |->
                  IF ignore THEN doc.text[kept[i]] \o <<"\n">> ELSE doc.text[kept[i]]])

\* C7: the text of a subtree is the content of its text nodes, the node
\* itself included, in document order; with ignore_whitespace the nodes of
\* nothing but whitespace are left out and every other node gives its content
\* as it is and a newline; without it every node gives its content and
\* nothing else.
C7_TextExtraction ==
    \A i \in DOMAIN output :
        output[i].mode = "text" =>
            output[i].data = ExpectedText(output[i].node, config.ignore_whitespace)

C7_Witness ==
    /\ pc = "returned"
    /\ config.ignore_whitespace
    /\ \E i \in DOMAIN output :
          /\ output[i].mode = "text"
          /\ \E m \in output[i].nodes : AllWhitespace(doc.text[m])
          /\ \E m \in output[i].nodes : doc.text[m] = <<" ", "a", " ">>
          /\ output[i].data = <<"t", "\n", "H", "i", "\n", " ", "a", " ", "\n">>

ExpectedAttributes(n, names) ==
    LET present == SelectSeq(names, LAMBDA a : a \in DOMAIN attrs[n])
    IN  IF ~IsElement(n) THEN <<>>
        ELSE Concat([i \in DOMAIN present |-> attrs[n][present[i]] \o <<"\n">>])

\* C8: a node that is not an element gives nothing; an element gives the
\* values of the requested names it has, each followed by a newline, in the
\* order of the request, a name requested twice twice, an absent one nothing.
C8_AttributeExtraction ==
    \A i \in DOMAIN output :
        output[i].mode = "attribute" =>
            output[i].data = ExpectedAttributes(output[i].node, config.attributes)

C8_Witness ==
    /\ pc = "returned"
    /\ config.attributes = <<"title", "href">>
    /\ \E i \in DOMAIN output :
          /\ output[i].mode = "attribute"
          /\ output[i].data = <<"y", "\n", "i", "/", "p", "\n">>

====
